---- MODULE Spec2Model ----
(***************************************************************************)
(* Model of career_village_entities: the CareerVillage container, its      *)
(* save/load/link operations and the relationship collections of the       *)
(* entities it holds.                                                      *)
(*                                                                         *)
(* An entity is named by its class and its position in the collection that *)
(* holds it (<<"tag", 2>> is the second Tag of cv.tags), so two entities   *)
(* that carry the same identifier stay distinct objects, as in Python.     *)
(* Scalar attributes that no operation of the container consults (names,   *)
(* dates, bodies, answers_id) are left out of the rows.                    *)
(***************************************************************************)
EXTENDS Integers, Sequences, FiniteSets, TLC

VARIABLES
    data,        \* the CSV directory: primary tables (loaded by load_raw) and join tables (read by link)
    strictKeys,  \* whether scalaps' key_by rejects a duplicated key (the library is not part of the repository)
    linked,      \* CareerVillage.linked
    lists,       \* every relationship collection: <<class, position, attribute>> -> [items, frozen]
    refs,        \* the single-valued references: <<class, position, attribute>> -> entity or None
    schoolObjs,  \* the school_id of every School object created so far, in creation order
    schools,     \* the attribute cv.schools: [defined, items]
    disk,        \* the pickle file written by save: [written, image]
    last         \* the most recent call: [op, entryLinked, result, at, built]

vars == <<data, strictKeys, linked, lists, refs, schoolObjs, schools, disk, last>>

----------------------------------------------------------------------------
(* Bounds and identifier universes *)

MaxRows == 2

TagIds == {1, 2}
GroupIds == {"g1", "g2"}
SchoolIds == {1, 2}
UserIds == {"u1", "u2", "u3"}
QuestionIds == {"q1", "q2"}
EmailIds == {"e1", "e2"}

None == <<>>

SeqsUpTo(S, n) == UNION {[1..k -> S] : k \in 0..n}

\* The rows a table can hold.
RowDomain(t) ==
    CASE t = "tags" -> TagIds
      [] t = "groups" -> GroupIds
      [] t = "students" -> UserIds
      [] t = "professionals" -> UserIds
      [] t = "questions" -> [questions_id : QuestionIds, author_id : UserIds]
      [] t = "answers" -> [author_id : UserIds, question_id : QuestionIds]
      [] t = "emails" -> [emails_id : EmailIds, recipient_id : UserIds]
      [] t = "tag_users" -> [tag_id : TagIds, user_id : UserIds]
      [] t = "group_memberships" -> [group_id : GroupIds, user_id : UserIds]
      [] t = "school_memberships" -> [school_id : SchoolIds, user_id : UserIds]
      [] t = "tag_questions" -> [tag_id : TagIds, question_id : QuestionIds]
      [] t = "matches" -> [email_id : EmailIds, question_id : QuestionIds]

TableNames ==
    {"tags", "groups", "students", "professionals", "questions", "answers", "emails",
     "tag_users", "group_memberships", "school_memberships", "tag_questions", "matches"}

\* A consistent dataset: one student, one professional, an unauthored question
\* and an unauthored answer (author u3 is in no user table).
Base ==
    [tags |-> <<1, 2>>,
     groups |-> <<"g1", "g2">>,
     students |-> <<"u1">>,
     professionals |-> <<"u2">>,
     questions |-> <<[questions_id |-> "q1", author_id |-> "u1"],
                     [questions_id |-> "q2", author_id |-> "u3"]>>,
     answers |-> <<[author_id |-> "u2", question_id |-> "q1"],
                   [author_id |-> "u3", question_id |-> "q2"]>>,
     emails |-> <<[emails_id |-> "e1", recipient_id |-> "u2"],
                  [emails_id |-> "e2", recipient_id |-> "u2"]>>,
     tag_users |-> <<[tag_id |-> 1, user_id |-> "u1"], [tag_id |-> 2, user_id |-> "u2"]>>,
     group_memberships |-> <<[group_id |-> "g1", user_id |-> "u1"],
                             [group_id |-> "g2", user_id |-> "u1"]>>,
     school_memberships |-> <<[school_id |-> 1, user_id |-> "u1"],
                              [school_id |-> 1, user_id |-> "u2"]>>,
     tag_questions |-> <<[tag_id |-> 1, question_id |-> "q1"],
                         [tag_id |-> 2, question_id |-> "q2"]>>,
     matches |-> <<[email_id |-> "e1", question_id |-> "q1"],
                   [email_id |-> "e2", question_id |-> "q1"]>>]

\* The datasets explored: Base with any one table replaced by an arbitrary
\* table of at most MaxRows rows.  A replaced primary table brings duplicated
\* and overlapping identifiers and leaves rows of the other tables dangling; a
\* replaced join table brings rows in any number and order, and rows whose
\* user (u3) does not exist.
Datasets ==
    UNION {{[Base EXCEPT ![t] = v] : v \in SeqsUpTo(RowDomain(t), MaxRows)} : t \in TableNames}

----------------------------------------------------------------------------
(* Entities and their attributes *)

Positions(d, t) == 1..Len(d[t])

Tags(d) == {<<"tag", i>> : i \in Positions(d, "tags")}
Groups(d) == {<<"group", i>> : i \in Positions(d, "groups")}
Students(d) == {<<"student", i>> : i \in Positions(d, "students")}
Professionals(d) == {<<"professional", i>> : i \in Positions(d, "professionals")}
Questions(d) == {<<"question", i>> : i \in Positions(d, "questions")}
Answers(d) == {<<"answer", i>> : i \in Positions(d, "answers")}
Emails(d) == {<<"email", i>> : i \in Positions(d, "emails")}

Users(d) == Students(d) \cup Professionals(d)

Loaded(d) ==
    Tags(d) \cup Groups(d) \cup Users(d) \cup Questions(d) \cup Answers(d) \cup Emails(d)

\* The ScList attributes each class creates in __init__.
ListAttrs(class) ==
    CASE class = "tag" -> {"users", "questions"}
      [] class = "group" -> {"users"}
      [] class = "school" -> {"users"}
      [] class = "student" -> {"tags", "groups", "schools", "questions", "answers"}
      [] class = "professional" -> {"tags", "groups", "schools", "questions", "answers", "emails"}
      [] class = "question" -> {"tags", "emails", "answers"}
      [] class = "answer" -> {}
      [] class = "email" -> {"questions"}

\* The class attributes that default to None until linked.
RefAttrs(class) ==
    CASE class = "question" -> {"author"}
      [] class = "answer" -> {"author", "question"}
      [] class = "email" -> {"recipient"}
      [] OTHER -> {}

Key(e, attr) == <<e[1], e[2], attr>>

ListKeys(es) == UNION {{Key(e, a) : a \in ListAttrs(e[1])} : e \in es}

RefKeys(es) == UNION {{Key(e, a) : a \in RefAttrs(e[1])} : e \in es}

EmptyList == [items |-> <<>>, frozen |-> FALSE]

Range(seq) == {seq[i] : i \in DOMAIN seq}

----------------------------------------------------------------------------
(* scalaps indexes: key_by and union *)

HasDuplicate(keys) == \E i, j \in DOMAIN keys : i < j /\ keys[i] = keys[j]

Column(rows, field) == [i \in DOMAIN rows |-> rows[i][field]]

\* Only a dataset with a duplicated primary key tells a key_by that rejects
\* duplicates from one that does not.
HasDuplicateKey(d) ==
    \/ HasDuplicate(d.tags) \/ HasDuplicate(d.groups)
    \/ HasDuplicate(d.students) \/ HasDuplicate(d.professionals)
    \/ HasDuplicate(Column(d.questions, "questions_id"))
    \/ HasDuplicate(Column(d.emails, "emails_id"))

\* key_by: identifier -> entity. Where a key is duplicated and the library
\* accepts it, the later entity replaces the earlier one, as in a dict.
KeyBy(class, keys) ==
    [k \in Range(keys) |->
        <<class, CHOOSE i \in DOMAIN keys : keys[i] = k /\ \A j \in DOMAIN keys : keys[j] = k => j <= i>>]

Union(a, b) == [k \in DOMAIN a \cup DOMAIN b |-> IF k \in DOMAIN b THEN b[k] ELSE a[k]]

OverlapNotChecked(a, b) == FALSE

\* union(..., error_on_overlap=True) raises when the two indexes share a key.
Overlaps(a, b) == DOMAIN a \cap DOMAIN b # {}

students_by_id == KeyBy("student", data.students)
professionals_by_id == KeyBy("professional", data.professionals)
users_by_id == Union(students_by_id, professionals_by_id)
tags_by_id == KeyBy("tag", data.tags)
groups_by_id == KeyBy("group", data.groups)
questions_by_id == KeyBy("question", Column(data.questions, "questions_id"))
emails_by_id == KeyBy("email", Column(data.emails, "emails_id"))

\* dict.get(key, None)
Get(index, key) == IF key \in DOMAIN index THEN index[key] ELSE None

IndexNames ==
    {"students_by_id", "professionals_by_id", "users_by_id", "tags_by_id",
     "groups_by_id", "questions_by_id", "emails_by_id"}

----------------------------------------------------------------------------
(* The running link() call.  s holds the heap as the call has changed it so *)
(* far, the call's local schools_by_id, the indexes built so far and the    *)
(* exception that ended it, if any.                                         *)

\* How a call ended: "ok", or the exception that left it.  KeyError is the
\* dict lookup's; "ValueError" stands for whatever scalaps raises for an
\* overlapping union or a rejected duplicate key.
NoError == "ok"

Raise(s, err, at) == IF s.err # NoError THEN s ELSE [s EXCEPT !.err = err, !.at = at]

\* ScList.append; a ScFrozenList has no append.
AppendTo(s, e, attr, x, at) ==
    IF s.err # NoError THEN s
    ELSE IF s.lists[Key(e, attr)].frozen THEN Raise(s, "AttributeError", at)
    ELSE [s EXCEPT !.lists[Key(e, attr)].items = Append(@, x)]

SetRef(s, e, attr, x) ==
    IF s.err # NoError THEN s ELSE [s EXCEPT !.refs[Key(e, attr)] = x]

BuildIndex(s, name, keys) ==
    IF s.err # NoError THEN s
    ELSE IF strictKeys /\ HasDuplicate(keys) THEN Raise(s, "ValueError", name)
    ELSE [s EXCEPT !.built = @ \cup {name}]

BuildUsersIndex(s) ==
    LET s1 == BuildIndex(s, "students_by_id", data.students)
        s2 == BuildIndex(s1, "professionals_by_id", data.professionals)
    IN  IF s2.err # NoError THEN s2
        ELSE IF Overlaps(students_by_id, professionals_by_id)
             THEN Raise(s2, "ValueError", "users_by_id")
             ELSE [s2 EXCEPT !.built = @ \cup {"users_by_id"}]

TagUserOneSided(s, tag, user) == AppendTo(s, tag, "users", user, "tag_users")

TagUser(s, tag, user) ==
    AppendTo(AppendTo(s, tag, "users", user, "tag_users"), user, "tags", tag, "tag_users")

RECURSIVE TagUsersRows(_, _)
TagUsersRows(s, i) ==
    IF s.err # NoError \/ i > Len(data.tag_users) THEN s
    ELSE LET row == data.tag_users[i] IN
         IF row.tag_id \notin DOMAIN tags_by_id \/ row.user_id \notin DOMAIN users_by_id
         THEN Raise(s, "KeyError", "tag_users")
         ELSE TagUsersRows(TagUser(s, tags_by_id[row.tag_id], users_by_id[row.user_id]), i + 1)

LinkTagUsers(s) == TagUsersRows(BuildIndex(s, "tags_by_id", data.tags), 1)

GroupUser(s, group, user) ==
    AppendTo(AppendTo(s, group, "users", user, "group_memberships"),
             user, "groups", group, "group_memberships")

RECURSIVE GroupMembershipRows(_, _)
GroupMembershipRows(s, i) ==
    IF s.err # NoError \/ i > Len(data.group_memberships) THEN s
    ELSE LET row == data.group_memberships[i] IN
         IF row.group_id \notin DOMAIN groups_by_id \/ row.user_id \notin DOMAIN users_by_id
         THEN Raise(s, "KeyError", "group_memberships")
         ELSE GroupMembershipRows(
                  GroupUser(s, groups_by_id[row.group_id], users_by_id[row.user_id]), i + 1)

LinkGroupUsers(s) == GroupMembershipRows(BuildIndex(s, "groups_by_id", data.groups), 1)

\* School(school_id): a new object with an empty users list, entered in schools_by_id.
NewSchool(s, school_id) ==
    LET k == Len(s.schoolObjs) + 1 IN
    [s EXCEPT !.schoolObjs = Append(@, school_id),
              !.schools_by_id = @ @@ (school_id :> <<"school", k>>),
              !.lists = @ @@ (Key(<<"school", k>>, "users") :> EmptyList)]

SchoolUser(s, school, user) ==
    AppendTo(AppendTo(s, school, "users", user, "school_memberships"),
             user, "schools", school, "school_memberships")

RECURSIVE SchoolMembershipRows(_, _)
SchoolMembershipRows(s, i) ==
    IF s.err # NoError \/ i > Len(data.school_memberships) THEN s
    ELSE LET row == data.school_memberships[i]
             s1 == IF row.school_id \in DOMAIN s.schools_by_id THEN s
                   ELSE NewSchool(s, row.school_id)
         IN  IF row.user_id \notin DOMAIN users_by_id
             THEN Raise(s1, "KeyError", "school_memberships")
             ELSE SchoolMembershipRows(
                      SchoolUser(s1, s1.schools_by_id[row.school_id], users_by_id[row.user_id]),
                      i + 1)

LinkSchoolUsers(s) == SchoolMembershipRows(s, 1)

TagQuestion(s, tag, question) ==
    AppendTo(AppendTo(s, question, "tags", tag, "tag_questions"),
             tag, "questions", question, "tag_questions")

RECURSIVE TagQuestionRows(_, _)
TagQuestionRows(s, i) ==
    IF s.err # NoError \/ i > Len(data.tag_questions) THEN s
    ELSE LET row == data.tag_questions[i] IN
         IF row.tag_id \notin DOMAIN tags_by_id \/ row.question_id \notin DOMAIN questions_by_id
         THEN Raise(s, "KeyError", "tag_questions")
         ELSE TagQuestionRows(
                  TagQuestion(s, tags_by_id[row.tag_id], questions_by_id[row.question_id]), i + 1)

LinkTagQuestions(s) ==
    TagQuestionRows(BuildIndex(s, "questions_by_id", Column(data.questions, "questions_id")), 1)

\* entity.author = users_by_id.get(author_id, None), appended to the author's
\* collection attr when an author was found.
ResolveAuthor(s, e, author_id, attr, at) ==
    LET author == Get(users_by_id, author_id)
        s1 == SetRef(s, e, "author", author)
    IN  IF author = None THEN s1 ELSE AppendTo(s1, author, attr, e, at)

RECURSIVE QuestionAuthors(_, _)
QuestionAuthors(s, i) ==
    IF s.err # NoError \/ i > Len(data.questions) THEN s
    ELSE QuestionAuthors(
             ResolveAuthor(s, <<"question", i>>, data.questions[i].author_id,
                           "questions", "question_authors"),
             i + 1)

LinkQuestionAuthors(s) == QuestionAuthors(s, 1)

\* answer.question = questions_by_id[answer.question_id]
AnswerQuestion(s, answer, question_id) ==
    IF question_id \notin DOMAIN questions_by_id THEN Raise(s, "KeyError", "answers")
    ELSE AppendTo(SetRef(s, answer, "question", questions_by_id[question_id]),
                  questions_by_id[question_id], "answers", answer, "answers")

RECURSIVE AnswerRows(_, _)
AnswerRows(s, i) ==
    IF s.err # NoError \/ i > Len(data.answers) THEN s
    ELSE LET s1 == ResolveAuthor(s, <<"answer", i>>, data.answers[i].author_id,
                                 "answers", "answer_authors")
         IN  AnswerRows(AnswerQuestion(s1, <<"answer", i>>, data.answers[i].question_id), i + 1)

LinkAnswers(s) == AnswerRows(s, 1)

RECURSIVE EmailRecipients(_, _)
EmailRecipients(s, i) ==
    IF s.err # NoError \/ i > Len(data.emails) THEN s
    ELSE LET rid == data.emails[i].recipient_id IN
         IF rid \notin DOMAIN professionals_by_id THEN Raise(s, "KeyError", "emails")
         ELSE EmailRecipients(
                  SetRef(AppendTo(s, professionals_by_id[rid], "emails", <<"email", i>>, "emails"),
                         <<"email", i>>, "recipient", professionals_by_id[rid]),
                  i + 1)

LinkEmailRecipients(s) == EmailRecipients(s, 1)

Match(s, email, question) ==
    AppendTo(AppendTo(s, email, "questions", question, "matches"),
             question, "emails", email, "matches")

RECURSIVE MatchRows(_, _)
MatchRows(s, i) ==
    IF s.err # NoError \/ i > Len(data.matches) THEN s
    ELSE LET row == data.matches[i] IN
         IF row.email_id \notin DOMAIN emails_by_id \/ row.question_id \notin DOMAIN questions_by_id
         THEN Raise(s, "KeyError", "matches")
         ELSE MatchRows(Match(s, emails_by_id[row.email_id], questions_by_id[row.question_id]),
                        i + 1)

LinkMatches(s) ==
    MatchRows(BuildIndex(s, "emails_by_id", Column(data.emails, "emails_id")), 1)

\* What each class's _freeze converts with to_frozen_list.
FrozenAttrs(class) ==
    CASE class = "tag" -> {"users", "questions"}
      [] class = "group" -> {"users"}
      [] class = "school" -> {"users"}
      [] class = "student" -> {"tags", "groups", "schools", "questions", "answers"}
      [] class = "professional" -> {"tags", "groups", "schools", "questions", "answers", "emails"}
      [] class = "question" -> {"tags", "emails", "answers"}
      [] class = "answer" -> {}
      [] class = "email" -> {"questions"}

\* The schools of this call's schools_by_id, in insertion order: the call
\* created them one after the other, so they are the last ones of schoolObjs.
SchoolValues(s) ==
    LET n == Cardinality(DOMAIN s.schools_by_id)
        first == Len(s.schoolObjs) - n
    IN  [i \in 1..n |-> <<"school", first + i>>]

\* freeze_list over the eight collections, cv.schools assigned on the way.
Freeze(s) ==
    IF s.err # NoError THEN s
    ELSE LET es == Loaded(data) \cup Range(SchoolValues(s))
             frozenNow == UNION {{Key(e, a) : a \in FrozenAttrs(e[1])} : e \in es}
         IN  [s EXCEPT !.lists = [k \in DOMAIN @ |->
                                    IF k \in frozenNow THEN [@[k] EXCEPT !.frozen = TRUE] ELSE @[k]],
                       !.schools = [defined |-> TRUE, items |-> SchoolValues(s)]]

StartLink ==
    [lists |-> lists, refs |-> refs, schoolObjs |-> schoolObjs, schools |-> schools,
     schools_by_id |-> <<>>, built |-> {}, err |-> NoError, at |-> ""]

LinkPassesTagsFirst(s) ==
    Freeze(LinkMatches(LinkEmailRecipients(LinkAnswers(LinkQuestionAuthors(
        LinkTagQuestions(LinkSchoolUsers(LinkGroupUsers(BuildUsersIndex(LinkTagUsers(s))))))))))

\* The body of link() after the flag is set, in the order of the code.
LinkPasses(s) ==
    Freeze(LinkMatches(LinkEmailRecipients(LinkAnswers(LinkQuestionAuthors(
        LinkTagQuestions(LinkSchoolUsers(LinkGroupUsers(LinkTagUsers(BuildUsersIndex(s))))))))))

----------------------------------------------------------------------------
(* The operations of CareerVillage *)

Call(op, result, at, built) ==
    [op |-> op, entryLinked |-> linked, result |-> result, at |-> at, built |-> built]

LinkGuardOff(flag) == FALSE

\* if self.linked: return
LinkGuard(flag) == flag

Link ==
    IF LinkGuard(linked)
    THEN /\ last' = Call("link", NoError, "", {})
         /\ UNCHANGED <<data, strictKeys, linked, lists, refs, schoolObjs, schools, disk>>
    ELSE LET s == LinkPasses(StartLink) IN
         /\ linked' = TRUE
         /\ lists' = s.lists
         /\ refs' = s.refs
         /\ schoolObjs' = s.schoolObjs
         /\ schools' = s.schools
         /\ last' = Call("link", s.err, s.at, s.built)
         /\ UNCHANGED <<data, strictKeys, disk>>

\* What pickle.dump(self) writes: the container and everything reachable from it.
Image ==
    [linked |-> linked, lists |-> lists, refs |-> refs,
     schoolObjs |-> schoolObjs, schools |-> schools]

SaveGuardOff(flag) == FALSE

\* if self.linked: raise RuntimeError
SaveGuard(flag) == flag

Save ==
    IF SaveGuard(linked)
    THEN /\ last' = Call("save", "RuntimeError", "", {})
         /\ UNCHANGED <<data, strictKeys, linked, lists, refs, schoolObjs, schools, disk>>
    ELSE /\ disk' = [written |-> TRUE, image |-> Image]
         /\ last' = Call("save", NoError, "", {})
         /\ UNCHANGED <<data, strictKeys, linked, lists, refs, schoolObjs, schools>>

\* CareerVillage.load(path, link): the caller gets the unpickled graph, linked
\* when link is set; when open() or link() raises, the caller gets nothing and
\* keeps the graph it had.
Load(link) ==
    IF ~disk.written
    THEN /\ last' = Call("load", "FileNotFoundError", "", {})
         /\ UNCHANGED <<data, strictKeys, linked, lists, refs, schoolObjs, schools, disk>>
    ELSE LET cv == disk.image
             start == [lists |-> cv.lists, refs |-> cv.refs, schoolObjs |-> cv.schoolObjs,
                       schools |-> cv.schools, schools_by_id |-> <<>>, built |-> {},
                       err |-> NoError, at |-> ""]
             s == IF link /\ ~LinkGuard(cv.linked) THEN LinkPasses(start) ELSE start
         IN  IF s.err # NoError
             THEN /\ last' = Call("load", s.err, s.at, s.built)
                  /\ UNCHANGED <<data, strictKeys, linked, lists, refs, schoolObjs, schools, disk>>
             ELSE /\ linked' = (cv.linked \/ link)
                  /\ lists' = s.lists
                  /\ refs' = s.refs
                  /\ schoolObjs' = s.schoolObjs
                  /\ schools' = s.schools
                  /\ last' = Call("load", NoError, "", s.built)
                  /\ UNCHANGED <<data, strictKeys, disk>>

----------------------------------------------------------------------------
(* The state after load_raw *)

Init ==
    /\ data \in Datasets
    /\ strictKeys \in IF HasDuplicateKey(data) THEN BOOLEAN ELSE {TRUE}
    /\ linked = FALSE
    /\ lists = [k \in ListKeys(Loaded(data)) |-> EmptyList]
    /\ refs = [k \in RefKeys(Loaded(data)) |-> None]
    /\ schoolObjs = <<>>
    /\ schools = [defined |-> FALSE, items |-> <<>>]
    /\ disk = [written |-> FALSE, image |-> <<>>]
    /\ last = [op |-> "load_raw", entryLinked |-> FALSE, result |-> NoError, at |-> "", built |-> {}]

Next ==
    \/ Link
    \/ Save
    \/ \E link \in BOOLEAN : Load(link)

Spec == Init /\ [][Next]_vars

----------------------------------------------------------------------------
(* Vocabulary of the properties *)

Items(e, attr) == lists[Key(e, attr)].items

In(x, e, attr) == x \in Range(Items(e, attr))

Schools == {<<"school", k>> : k \in DOMAIN schoolObjs}

EntityId(e) ==
    CASE e[1] = "tag" -> data.tags[e[2]]
      [] e[1] = "group" -> data.groups[e[2]]
      [] e[1] = "school" -> schoolObjs[e[2]]
      [] e[1] = "student" -> data.students[e[2]]
      [] e[1] = "professional" -> data.professionals[e[2]]
      [] e[1] = "question" -> data.questions[e[2]].questions_id
      [] e[1] = "email" -> data.emails[e[2]].emails_id

UserKeys == Range(data.students) \cup Range(data.professionals)

QuestionKeys == Range(Column(data.questions, "questions_id"))

\* The most recent call was link() and it returned without raising.
LinkReturned == last.op = "link" /\ last.result = NoError

\* The most recent call was a link() that found the flag clear and did the work.
FirstLink == last.op = "link" /\ ~last.entryLinked

SomeAppend == \E k \in DOMAIN lists : lists[k].items # <<>>

NothingLinked ==
    /\ ~SomeAppend
    /\ \A k \in DOMAIN refs : refs[k] = None
    /\ schoolObjs = <<>>

AllFrozen == \A k \in DOMAIN lists : lists[k].frozen

Sealed == AllFrozen /\ schools.defined

Closed(L, lattr, R, rattr) == \A l \in L, r \in R : In(r, l, lattr) <=> In(l, r, rattr)

QuestionResolved(a) ==
    LET q == refs[Key(a, "question")] IN
    /\ q # None
    /\ EntityId(q) = data.answers[a[2]].question_id
    /\ In(a, q, "answers")

AuthorResolved(e, author_id, attr) ==
    LET author == refs[Key(e, "author")] IN
    IF author_id \notin UserKeys THEN author = None
    ELSE author # None /\ EntityId(author) = author_id /\ In(e, author, attr)

RowResolved(L, lid, lattr, R, rid, rattr) ==
    \E l \in L, r \in R :
        EntityId(l) = lid /\ EntityId(r) = rid /\ In(r, l, lattr) /\ In(l, r, rattr)

FullyLinked ==
    /\ \A row \in Range(data.tag_users) :
           RowResolved(Tags(data), row.tag_id, "users", Users(data), row.user_id, "tags")
    /\ \A row \in Range(data.group_memberships) :
           RowResolved(Groups(data), row.group_id, "users", Users(data), row.user_id, "groups")
    /\ \A row \in Range(data.school_memberships) :
           RowResolved(Schools, row.school_id, "users", Users(data), row.user_id, "schools")
    /\ \A row \in Range(data.tag_questions) :
           RowResolved(Tags(data), row.tag_id, "questions",
                       Questions(data), row.question_id, "tags")
    /\ \A row \in Range(data.matches) :
           RowResolved(Emails(data), row.email_id, "questions",
                       Questions(data), row.question_id, "emails")
    /\ \A q \in Questions(data) : AuthorResolved(q, data.questions[q[2]].author_id, "questions")
    /\ \A a \in Answers(data) :
           AuthorResolved(a, data.answers[a[2]].author_id, "answers") /\ QuestionResolved(a)
    /\ \A m \in Emails(data) :
           LET p == refs[Key(m, "recipient")] IN
           p # None /\ EntityId(p) = data.emails[m[2]].recipient_id /\ In(m, p, "emails")

GraphUnchanged ==
    /\ linked' = linked
    /\ lists' = lists
    /\ refs' = refs
    /\ schoolObjs' = schoolObjs
    /\ schools' = schools

----------------------------------------------------------------------------
(* Properties *)

\* C1: when link() has returned without error, every many-to-many
\* relationship is closed both ways: tag/group/school S holds user U exactly
\* when U holds S, tag T holds question Q exactly when Q holds T, and email M
\* holds question Q exactly when Q holds M.
BidirectionalClosure ==
    LinkReturned =>
        /\ Closed(Tags(data), "users", Users(data), "tags")
        /\ Closed(Groups(data), "users", Users(data), "groups")
        /\ Closed(Schools, "users", Users(data), "schools")
        /\ Closed(Tags(data), "questions", Questions(data), "tags")
        /\ Closed(Emails(data), "questions", Questions(data), "emails")

\* A completed link in which every kind of join produced entries, one school
\* holding both users.
ClosureWitness ==
    /\ LinkReturned /\ FirstLink
    /\ \E t \in Tags(data), u \in Users(data) : In(u, t, "users")
    /\ \E g \in Groups(data), u \in Users(data) : In(u, g, "users")
    /\ \E s \in Schools : Len(Items(s, "users")) = 2
    /\ \E t \in Tags(data), q \in Questions(data) : In(q, t, "questions")
    /\ \E m \in Emails(data), q \in Questions(data) : In(q, m, "questions")

\* C2: when link() has returned without error, every answer has a question
\* whose id is its question_id and which holds the answer; and a link() over
\* an answer whose question_id is in no question does not return normally.
AnswersResolved ==
    /\ LinkReturned => \A a \in Answers(data) : QuestionResolved(a)
    /\ (last.op = "link"
        /\ \E a \in Answers(data) : data.answers[a[2]].question_id \notin QuestionKeys)
       => last.result # NoError

\* C3: when link() has returned without error, the author of every question
\* and answer is None exactly when its author_id is no user's id, and is
\* otherwise the user with that id, who holds the question or answer; and no
\* link() is ended by the resolution of an author.
AuthorsResolved ==
    /\ LinkReturned =>
           /\ \A q \in Questions(data) :
                  AuthorResolved(q, data.questions[q[2]].author_id, "questions")
           /\ \A a \in Answers(data) :
                  AuthorResolved(a, data.answers[a[2]].author_id, "answers")
    /\ last.at \notin {"question_authors", "answer_authors"}

\* C4: whenever link() returns without error the graph is fully linked and
\* sealed, an earlier aborted link() on the same graph notwithstanding.
AllOrNothing == LinkReturned => FullyLinked /\ Sealed

\* C5: once the linked flag is set, a further link() changes no relationship
\* collection, no reference, neither the schools nor the flag.
LinkAtMostOnce == [][(linked /\ last'.op = "link") => GraphUnchanged]_vars

\* link() called again on a graph that an earlier link() linked and sealed.
RelinkAfterSuccessWitness ==
    /\ last.op = "link" /\ last.entryLinked
    /\ Sealed /\ SomeAppend /\ schoolObjs # <<>>

\* C6 as stated: link() on a graph whose flag is already set does not return
\* normally.
RelinkFails == (last.op = "link" /\ last.entryLinked) => last.result # NoError

\* C6 as amended: link() on a graph whose flag is already set returns
\* normally, having built no index and done no linking.
RelinkReturns ==
    (last.op = "link" /\ last.entryLinked) => (last.result = NoError /\ last.built = {})

\* link() called again after the first link() aborted.
RelinkAfterAbortWitness ==
    /\ last.op = "link" /\ last.entryLinked
    /\ linked /\ ~Sealed

\* C7: when link() has returned without error every relationship collection
\* is frozen, and no later link() or save() changes any of them.
SealedAfterLink ==
    [][/\ LinkReturned' => AllFrozen'
       /\ (LinkReturned /\ last'.op \in {"link", "save"}) => lists' = lists]_vars

\* C8: save() on a graph whose flag is set raises, writes nothing and changes
\* nothing; save() on a graph whose flag is clear writes the graph and
\* changes neither the flag nor any collection or reference.
SaveOnlyUnlinked ==
    [][last'.op = "save" =>
           IF linked
           THEN last'.result = "RuntimeError" /\ disk' = disk /\ GraphUnchanged
           ELSE last'.result = NoError /\ disk' = [written |-> TRUE, image |-> Image]
                /\ GraphUnchanged]_vars

\* save() accepted before link(), then rejected after a link() that aborted.
SaveRejectedWitness ==
    /\ last.op = "save" /\ last.result = "RuntimeError"
    /\ linked /\ ~Sealed /\ disk.written

UserIdClash == Range(data.students) \cap Range(data.professionals) # {}

\* C9: when some id is both a student's and a professional's, link() raises,
\* and nothing has been linked: no collection appended to, no reference set,
\* no School created.
OverlapFailsBeforeLinking ==
    UserIdClash => /\ NothingLinked
                   /\ FirstLink => last.result = "ValueError"

\* link() ended by the overlap check of the merged user index.
OverlapWitness ==
    /\ UserIdClash /\ FirstLink
    /\ last.result = "ValueError" /\ last.at = "users_by_id"

\* C10 as stated: all seven indexes are built before the first append, so a
\* failure building any index finds every collection empty.
IndexesBeforeAppends ==
    FirstLink => /\ SomeAppend => IndexNames \subseteq last.built
                 /\ last.at \in IndexNames => ~SomeAppend

\* C10 as amended: each index is built before the pass that first consults
\* it. The student, professional, merged user and tag indexes are built
\* before the first append, so a failure building one of them finds every
\* collection empty; the group index is built before the first group append,
\* the question index before the first tag-question append and the email
\* index before the first match append.
IndexBeforeFirstUse ==
    FirstLink =>
        /\ SomeAppend =>
               {"students_by_id", "professionals_by_id", "users_by_id", "tags_by_id"}
                   \subseteq last.built
        /\ last.at \in {"students_by_id", "professionals_by_id", "users_by_id", "tags_by_id"}
               => ~SomeAppend
        /\ (\E g \in Groups(data) : Items(g, "users") # <<>>) => "groups_by_id" \in last.built
        /\ (\E q \in Questions(data) : Items(q, "tags") # <<>> \/ Items(q, "answers") # <<>>)
               => "questions_by_id" \in last.built
        /\ (\E m \in Emails(data) : Items(m, "questions") # <<>>) => "emails_by_id" \in last.built

\* link() ended in the group pass: tags and users are linked already and the
\* question and email indexes do not exist yet.
LateIndexWitness ==
    /\ FirstLink /\ last.at = "group_memberships"
    /\ SomeAppend
    /\ "questions_by_id" \notin last.built /\ "emails_by_id" \notin last.built

----------------------------------------------------------------------------
(* What the first link() on a graph establishes.  The properties above that *)
(* fail do so only in a link() that found the flag already set by an        *)
(* aborted one; restricted to the call that did the work, they hold.        *)

FirstLinkReturned == FirstLink /\ LinkReturned

FirstLinkResolvesAnswers ==
    /\ FirstLinkReturned => \A a \in Answers(data) : QuestionResolved(a)
    /\ (FirstLink
        /\ \E a \in Answers(data) : data.answers[a[2]].question_id \notin QuestionKeys)
       => last.result # NoError

FirstLinkResolvesAuthors ==
    FirstLinkReturned =>
        /\ \A q \in Questions(data) :
               AuthorResolved(q, data.questions[q[2]].author_id, "questions")
        /\ \A a \in Answers(data) :
               AuthorResolved(a, data.answers[a[2]].author_id, "answers")

FirstLinkAllOrNothing == FirstLinkReturned => FullyLinked /\ Sealed

LoadAllOrNothing ==
    (last.op = "load" /\ last.result = NoError /\ linked) => FullyLinked /\ Sealed

SealedStaysSealed ==
    [][(Sealed /\ last'.op \in {"link", "save"}) => (lists' = lists /\ Sealed')]_vars

====
